---- MODULE Spec2Model ----
(***************************************************************************)
(* SystemMonitor (pi_system_monitor/sys_monitor.py): the cached CPU        *)
(* temperature (cpu_temperature property, get_cpu_temperature), the plain  *)
(* sensor getters, and the four collectors get_all_metrics, get_metrics,   *)
(* get_all_metrics_async and get_all_metrics_threaded.                     *)
(*                                                                         *)
(* Threads of control: "main" calls the monitor's public methods one after *)
(* another; w1 and w2 are the threads a collector of main starts (the      *)
(* Thread objects of get_all_metrics_threaded, the executor threads behind *)
(* loop.run_in_executor); r1 and r2 are threads that read the cached       *)
(* temperature of the same monitor concurrently.  pc[t] is the source line *)
(* thread t is at; one action is one step between two points where CPython *)
(* may switch threads (a load or a store of an attribute of self, a clock  *)
(* sample, an external read).                                              *)
(* Optional[float] is a sequence: <<>> is None, <<v>> is the value v.      *)
(***************************************************************************)
EXTENDS Integers, Sequences, FiniteSets, TLC

VARIABLES
    now,                    \* the value time.time() returns
    _cpu_temperature,       \* self._cpu_temperature
    _cpu_temp_timestamp,    \* self._cpu_temp_timestamp
    pc,                     \* pc[t]: source line thread t is at
    ctx,                    \* ctx[t]: the method get_cpu_temperature returns into
    frame,                  \* frame[t]: the locals of the methods t is in
    metrics,                \* the dict the collector of main is assembling
    task,                   \* task[w]: state and result of the job worker w runs
    call,                   \* history: id of the call t is in, what it saw of the cache
    readTime,               \* history: readTime[i], the clock at the source read of call i
    valBy,                  \* history: id of the call whose read _cpu_temperature holds
    tsBy,                   \* history: id of the call that stored _cpu_temp_timestamp
    ncalls,                 \* history: number of top-level calls started
    obs,                    \* history: what the call of main in progress met
    last,                   \* history: the record of the call main completed last
    log                     \* history: the records of main's cached reads, in order

vars == << now, _cpu_temperature, _cpu_temp_timestamp, pc, ctx, frame, metrics,
           task, call, readTime, valBy, tsBy, ncalls, obs, last, log >>

cache == << _cpu_temperature, _cpu_temp_timestamp >>
cacheHist == << readTime, valBy, tsBy >>
mainHist == << obs, last, log >>

-----------------------------------------------------------------------------
(* Bounds *)

MaxTime == 12       \* the clock stops here
MaxCalls == 3       \* top-level calls per behaviour
MaxCollects == 2    \* a collector or a plain sensor getter is one of the first MaxCollects calls
MaxList == 2        \* length of the metrics_list handed to get_metrics

(* Program constants *)

_cpu_temp_ttl == 5  \* self._cpu_temp_ttl

None == << >>
Some(v) == << v >>

Readers == {"r1", "r2"}
Workers == {"w1", "w2"}
Threads == {"main"} \cup Readers \cup Workers

\* time.time() is seconds since the epoch: the first sample any call takes is
\* already more than a TTL past the timestamp 0 that __init__ stores.
InitTime == _cpu_temp_ttl + 1

\* First line of /sys/class/thermal/thermal_zone0/temp, in millidegrees.
MilliTemps == {45000, 52000}

NoOutcome == [kind |-> "none", v |-> 0]

\* What a psutil call can do: give a value, or raise.
PsutilOutcomes == {[kind |-> "ok", v |-> 17], [kind |-> "Exception", v |-> 0]}

\* psutil.cpu_freq() can also give None (line 147: no frequency information).
FreqOutcomes == PsutilOutcomes \cup {[kind |-> "None", v |-> 0]}

\* os.getloadavg() gives the averages, raises OSError, or is missing from os.
LoadOutcomes == {[kind |-> "ok", v |-> 1], [kind |-> "OSError", v |-> 0],
                 [kind |-> "AttributeError", v |-> 0]}

\* except (AttributeError, OSError), line 278
CaughtAt278 == {"AttributeError", "OSError"}

\* The metric of every sensor getter of the class, lines 42-351.
KnownMetrics ==
    {"cpu_temp", "gpu_temp", "cpu_usage", "per_core_cpu_usage", "cpu_freq",
     "cpu_stats", "memory", "disk", "network", "uptime", "load_average",
     "process_count", "battery", "fan_speed", "memory_temp"}

\* The ids the metrics_list of a get_metrics call is drawn from: some known
\* metrics and one id no getter answers to.
RequestIds == {"cpu_temp", "cpu_usage", "fan_speed", "memory_temp", "bogus"}

RECURSIVE SeqsUpTo(_, _)
SeqsUpTo(S, n) ==
    IF n = 0 THEN {<< >>}
    ELSE LET shorter == SeqsUpTo(S, n - 1)
         IN  shorter \cup {Append(q, x) : q \in shorter, x \in S}

MetricsLists == SeqsUpTo(RequestIds, MaxList)

\* d[k] = v on a dict
Put(d, k, v) == [x \in DOMAIN d \cup {k} |-> IF x = k THEN v ELSE d[x]]

\* What open() + readline() + float() can do at lines 56-58.
ReadOutcomes ==
    {[kind |-> "ok", v |-> m] : m \in MilliTemps}
        \cup {[kind |-> "FileNotFoundError", v |-> 0],
              [kind |-> "ValueError", v |-> 0],
              [kind |-> "OSError", v |-> 0]}

\* except (FileNotFoundError, ValueError), line 61
CaughtAt61 == {"FileNotFoundError", "ValueError"}

\* float(temp_str) / 1000.0, line 58
ToCelsius(temp_str) == temp_str \div 1000

StaleOffByOne(t, stamp) == t - stamp >= _cpu_temp_ttl
\* current_time - self._cpu_temp_timestamp > self._cpu_temp_ttl, lines 30 and 53
Stale(t, stamp) == t - stamp > _cpu_temp_ttl

NoFrame == [current_time |-> 0, prop_time |-> 0, temp_c |-> 0, ret |-> None,
            list |-> << >>, i |-> 1]
NoCall == [id |-> 0, hit |-> FALSE, obsBy |-> 0, retBy |-> 0]
NoTask == [state |-> "none", result |-> None, wrote |-> {}]
NoObs == [clock |-> 0, temp |-> NoOutcome, usage |-> NoOutcome, failed |-> {},
          stamped |-> FALSE, startTemp |-> None, startTs |-> 0]
NoRecord == [op |-> "none"]
EmptyDict == [k \in {} |-> None]

Idle(t) == pc[t] = "idle"

\* main and the workers it starts are the observed client
Observed(t) == t \notin Readers

-----------------------------------------------------------------------------
(* __init__, lines 37-40 *)

Init ==
    /\ now = InitTime
    /\ _cpu_temperature = None
    /\ _cpu_temp_timestamp = 0
    /\ pc = [t \in Threads |-> "idle"]
    /\ ctx = [t \in Threads |-> "none"]
    /\ frame = [t \in Threads |-> NoFrame]
    /\ metrics = EmptyDict
    /\ task = [t \in Workers |-> NoTask]
    /\ call = [t \in Threads |-> NoCall]
    /\ readTime = [i \in 0 .. MaxCalls |-> 0]
    /\ valBy = 0
    /\ tsBy = 0
    /\ ncalls = 0
    /\ obs = NoObs
    /\ last = NoRecord
    /\ log = << >>

\* time.time(): the clock is seen only here, so the time that passed since it
\* was last sampled (none, exactly a TTL, or a TTL and a bit) is added here.
TimePasses ==
    \E d \in {0, _cpu_temp_ttl, _cpu_temp_ttl + 1} :
        /\ now + d <= MaxTime
        /\ now' = now + d

\* main begins a top-level call of method op at its first line.
Begin(op, first, arg, limit) ==
    /\ \A t \in Threads \ Readers : Idle(t)
    /\ ncalls < limit
    /\ ncalls' = ncalls + 1
    /\ pc' = [pc EXCEPT !["main"] = first]
    /\ ctx' = [ctx EXCEPT !["main"] = op]
    /\ frame' = [frame EXCEPT !["main"] = [NoFrame EXCEPT !.list = arg]]
    /\ call' = [call EXCEPT !["main"] = [NoCall EXCEPT !.id = ncalls + 1]]
    /\ task' = [t \in Workers |-> NoTask]
    /\ metrics' = EmptyDict
    /\ obs' = [NoObs EXCEPT !.startTemp = _cpu_temperature,
                            !.startTs = _cpu_temp_timestamp]
    /\ last' = NoRecord
    /\ UNCHANGED << now, cache, cacheHist, log >>

-----------------------------------------------------------------------------
(* get_cpu_temperature, lines 42-64 *)

CallGetCpuTemperature == Begin("get_cpu_temperature", "L52", << >>, MaxCalls)

\* line 52: current_time = time.time()
L52(t) ==
    /\ pc[t] = "L52"
    /\ TimePasses
    /\ frame' = [frame EXCEPT ![t].current_time = now']
    /\ obs' = IF Observed(t) /\ obs.clock = 0 THEN [obs EXCEPT !.clock = now'] ELSE obs
    /\ pc' = [pc EXCEPT ![t] = "L53"]
    /\ UNCHANGED << cache, ctx, metrics, task, call, cacheHist, ncalls, last, log >>

\* line 53: if current_time - self._cpu_temp_timestamp > self._cpu_temp_ttl
L53(t) ==
    /\ pc[t] = "L53"
    /\ IF Stale(frame[t].current_time, _cpu_temp_timestamp)
       THEN /\ pc' = [pc EXCEPT ![t] = "L56"]
            /\ call' = call
       ELSE /\ pc' = [pc EXCEPT ![t] = "L64"]
            /\ call' = [call EXCEPT ![t].hit = TRUE, ![t].obsBy = tsBy]
    /\ UNCHANGED << now, cache, ctx, frame, metrics, task, cacheHist, ncalls, mainHist >>

\* lines 56-58: open the file, read its first line, parse it.  An exception
\* line 61 names goes to line 63; any other leaves get_cpu_temperature.
L56(t) ==
    /\ pc[t] = "L56"
    /\ \E o \in ReadOutcomes :
        /\ obs' = IF Observed(t)
                  THEN [obs EXCEPT !.temp = o,
                                   !.failed = IF o.kind = "ok" THEN @ ELSE @ \cup {"cpu_temp"}]
                  ELSE obs
        /\ IF o.kind = "ok"
           THEN /\ frame' = [frame EXCEPT ![t].temp_c = ToCelsius(o.v)]
                /\ pc' = [pc EXCEPT ![t] = "L59"]
           ELSE /\ frame' = frame
                /\ pc' = [pc EXCEPT ![t] =
                            IF o.kind \in CaughtAt61 THEN "L63" ELSE "raise"]
    /\ readTime' = [readTime EXCEPT ![call[t].id] = now]
    /\ UNCHANGED << now, cache, ctx, metrics, task, call, valBy, tsBy, ncalls, last, log >>

\* line 59: self._cpu_temperature = temp_c
L59(t) ==
    /\ pc[t] = "L59"
    /\ _cpu_temperature' = Some(frame[t].temp_c)
    /\ valBy' = call[t].id
    /\ pc' = [pc EXCEPT ![t] = "L60"]
    /\ UNCHANGED << now, _cpu_temp_timestamp, ctx, frame, metrics, task, call, readTime,
                    tsBy, ncalls, mainHist >>

\* line 60: self._cpu_temp_timestamp = current_time
L60(t) ==
    /\ pc[t] = "L60"
    /\ _cpu_temp_timestamp' = frame[t].current_time
    /\ tsBy' = call[t].id
    /\ obs' = IF Observed(t) THEN [obs EXCEPT !.stamped = TRUE] ELSE obs
    /\ pc' = [pc EXCEPT ![t] = "L64"]
    /\ UNCHANGED << now, _cpu_temperature, ctx, frame, metrics, task, call, readTime,
                    valBy, ncalls, last, log >>

\* line 63: self._cpu_temperature = None (the timestamp is left as it was)
L63(t) ==
    /\ pc[t] = "L63"
    /\ _cpu_temperature' = None
    /\ valBy' = call[t].id
    /\ pc' = [pc EXCEPT ![t] = "L64"]
    /\ UNCHANGED << now, _cpu_temp_timestamp, ctx, frame, metrics, task, call, readTime,
                    tsBy, ncalls, mainHist >>

\* line 64: return self._cpu_temperature
L64(t) ==
    /\ pc[t] = "L64"
    /\ frame' = [frame EXCEPT ![t].ret = _cpu_temperature]
    /\ call' = [call EXCEPT ![t].retBy = valBy]
    /\ pc' = [pc EXCEPT ![t] = "return"]
    /\ UNCHANGED << now, cache, ctx, metrics, task, cacheHist, ncalls, mainHist >>

-----------------------------------------------------------------------------
(* cpu_temperature property, lines 27-33 *)

CallCpuTemperatureProperty == Begin("cpu_temperature", "L29", << >>, MaxCalls)

\* line 29: current_time = time.time()
L29(t) ==
    /\ pc[t] = "L29"
    /\ TimePasses
    /\ frame' = [frame EXCEPT ![t].prop_time = now']
    /\ obs' = IF Observed(t) THEN [obs EXCEPT !.clock = now'] ELSE obs
    /\ pc' = [pc EXCEPT ![t] = "L30"]
    /\ UNCHANGED << cache, ctx, metrics, task, call, cacheHist, ncalls, last, log >>

\* line 30: the staleness test; line 31 calls self.get_cpu_temperature()
L30(t) ==
    /\ pc[t] = "L30"
    /\ IF Stale(frame[t].prop_time, _cpu_temp_timestamp)
       THEN /\ pc' = [pc EXCEPT ![t] = "L52"]
            /\ call' = call
       ELSE /\ pc' = [pc EXCEPT ![t] = "L33"]
            /\ call' = [call EXCEPT ![t].hit = TRUE, ![t].obsBy = tsBy]
    /\ UNCHANGED << now, cache, ctx, frame, metrics, task, cacheHist, ncalls, mainHist >>

\* line 31: self._cpu_temperature = <what get_cpu_temperature returned>
L31(t) ==
    /\ pc[t] = "return"
    /\ ctx[t] = "cpu_temperature"
    /\ _cpu_temperature' = frame[t].ret
    /\ valBy' = call[t].retBy
    /\ pc' = [pc EXCEPT ![t] = "L32"]
    /\ UNCHANGED << now, _cpu_temp_timestamp, ctx, frame, metrics, task, call, readTime,
                    tsBy, ncalls, mainHist >>

\* line 32: self._cpu_temp_timestamp = current_time (the property's sample)
L32(t) ==
    /\ pc[t] = "L32"
    /\ _cpu_temp_timestamp' = frame[t].prop_time
    /\ tsBy' = call[t].id
    /\ call' = [call EXCEPT ![t].hit = FALSE]
    /\ obs' = IF Observed(t) THEN [obs EXCEPT !.stamped = TRUE] ELSE obs
    /\ pc' = [pc EXCEPT ![t] = "L33"]
    /\ UNCHANGED << now, _cpu_temperature, ctx, frame, metrics, task, readTime, valBy,
                    ncalls, last, log >>

\* line 33: return self._cpu_temperature
L33(t) ==
    /\ pc[t] = "L33"
    /\ frame' = [frame EXCEPT ![t].ret = _cpu_temperature]
    /\ call' = [call EXCEPT ![t].retBy = valBy]
    /\ pc' = [pc EXCEPT ![t] = "done"]
    /\ UNCHANGED << now, cache, ctx, metrics, task, cacheHist, ncalls, mainHist >>

\* the steps of get_cpu_temperature and of the property, whoever runs them
CacheStep(t) ==
    \/ L52(t) \/ L53(t) \/ L56(t) \/ L59(t) \/ L60(t) \/ L63(t) \/ L64(t)
    \/ L29(t) \/ L30(t) \/ L31(t) \/ L32(t) \/ L33(t)

-----------------------------------------------------------------------------
(* The end of a top-level call of main: its record goes to the history. *)

Record(status, result) ==
    [op |-> ctx["main"], arg |-> frame["main"].list, status |-> status,
     result |-> result, clock |-> obs.clock, temp |-> obs.temp, usage |-> obs.usage,
     failed |-> obs.failed, stamped |-> obs.stamped,
     running |-> {w \in Workers : ~Idle(w)},
     startTemp |-> obs.startTemp, startTs |-> obs.startTs,
     endTemp |-> _cpu_temperature, endTs |-> _cpu_temp_timestamp]

Finish(status, result, logged) ==
    /\ last' = Record(status, result)
    /\ log' = IF logged THEN Append(log, Record(status, result)) ELSE log
    /\ pc' = [pc EXCEPT !["main"] = "idle"]
    /\ ctx' = [ctx EXCEPT !["main"] = "none"]
    /\ frame' = [frame EXCEPT !["main"] = NoFrame]
    /\ call' = [call EXCEPT !["main"] = NoCall]
    /\ obs' = NoObs
    /\ UNCHANGED << now, cache, cacheHist, ncalls, metrics, task >>

\* get_cpu_temperature (line 64) or the property (line 33) hands its value to
\* the code that called it.
ReturnTemperature ==
    /\ \/ pc["main"] = "return" /\ ctx["main"] = "get_cpu_temperature"
       \/ pc["main"] = "done" /\ ctx["main"] = "cpu_temperature"
    /\ Finish("returned", frame["main"].ret, TRUE)

\* An exception line 61 does not name leaves get_cpu_temperature, and the
\* property has no handler either: the code that called it sees it.
RaiseTemperature ==
    /\ pc["main"] = "raise"
    /\ ctx["main"] \in {"get_cpu_temperature", "cpu_temperature"}
    /\ Finish("raised", None, TRUE)

-----------------------------------------------------------------------------
(* Concurrent readers: threads r1, r2 call get_cpu_temperature (directly, as *)
(* Thread targets, or as the executor job of get_cpu_temperature_async,      *)
(* lines 66-68) or read the property on the same monitor.                    *)

ReaderBegin(r, op, first) ==
    /\ Idle(r)
    /\ ncalls < MaxCalls
    /\ ncalls' = ncalls + 1
    /\ pc' = [pc EXCEPT ![r] = first]
    /\ ctx' = [ctx EXCEPT ![r] = op]
    /\ call' = [call EXCEPT ![r] = [NoCall EXCEPT !.id = ncalls + 1]]
    /\ UNCHANGED << now, cache, frame, metrics, task, cacheHist, mainHist >>

ReaderCallGet(r) == ReaderBegin(r, "get_cpu_temperature", "L52")

ReaderCallProperty(r) == ReaderBegin(r, "cpu_temperature", "L29")

\* the reader's call is over: it returned frame[r].ret or raised
ReaderLeaves(r) ==
    /\ \/ pc[r] = "return" /\ ctx[r] = "get_cpu_temperature"
       \/ pc[r] = "done" /\ ctx[r] = "cpu_temperature"
       \/ pc[r] = "raise"
    /\ pc' = [pc EXCEPT ![r] = "idle"]
    /\ ctx' = [ctx EXCEPT ![r] = "none"]
    /\ frame' = [frame EXCEPT ![r] = NoFrame]
    /\ call' = [call EXCEPT ![r] = NoCall]
    /\ UNCHANGED << now, cache, metrics, task, cacheHist, ncalls, mainHist >>

-----------------------------------------------------------------------------
(* Plain sensor getters *)

\* get_cpu_usage, lines 101-107: the value, or None when psutil raised
get_cpu_usage(o) == IF o.kind = "ok" THEN Some(o.v) ELSE None

\* obs after the CPU-usage source answered o
NoteUsage(o) ==
    [obs EXCEPT !.usage = o,
                !.failed = IF o.kind = "ok" THEN @ ELSE @ \cup {"cpu_usage"}]

\* obs after the source of metric k answered o
NoteOther(k, o) == [obs EXCEPT !.failed = IF o.kind = "ok" THEN @ ELSE @ \cup {k}]

CallGetCpuUsage == Begin("get_cpu_usage", "L103", << >>, MaxCollects)

\* lines 101-107 as a top-level call
L103 ==
    /\ pc["main"] = "L103"
    /\ \E o \in PsutilOutcomes :
        /\ last' = [Record("returned", get_cpu_usage(o)) EXCEPT
                        !.usage = o, !.failed = NoteUsage(o).failed]
    /\ log' = log
    /\ pc' = [pc EXCEPT !["main"] = "idle"]
    /\ ctx' = [ctx EXCEPT !["main"] = "none"]
    /\ frame' = [frame EXCEPT !["main"] = NoFrame]
    /\ call' = [call EXCEPT !["main"] = NoCall]
    /\ obs' = NoObs
    /\ UNCHANGED << now, cache, cacheHist, ncalls, metrics, task >>

CallGetLoadAverage == Begin("get_load_average", "L276", << >>, MaxCollects)

\* get_load_average, lines 275-280
L276 ==
    /\ pc["main"] = "L276"
    /\ \E o \in LoadOutcomes :
        /\ last' = [Record(IF o.kind = "ok" \/ o.kind \in CaughtAt278
                            THEN "returned" ELSE "raised",
                            IF o.kind = "ok" THEN Some(o.v) ELSE None)
                        EXCEPT !.failed = NoteOther("load_average", o).failed]
    /\ log' = log
    /\ pc' = [pc EXCEPT !["main"] = "idle"]
    /\ ctx' = [ctx EXCEPT !["main"] = "none"]
    /\ frame' = [frame EXCEPT !["main"] = NoFrame]
    /\ call' = [call EXCEPT !["main"] = NoCall]
    /\ obs' = NoObs
    /\ UNCHANGED << now, cache, cacheHist, ncalls, metrics, task >>

-----------------------------------------------------------------------------
(* Jobs on the executor: get_cpu_temperature_async (lines 66-68),          *)
(* get_cpu_usage_async (lines 109-115), and get_all_metrics_async, whose   *)
(* gather (line 410) runs the two coroutines up to their await in turn.    *)

CallGetCpuTemperatureAsync ==
    Begin("get_cpu_temperature_async", "L68", << >>, MaxCollects)

CallGetCpuUsageAsync == Begin("get_cpu_usage_async", "L114", << >>, MaxCollects)

CallGetAllMetricsAsync == Begin("get_all_metrics_async", "L68", << >>, MaxCollects)

\* worker w starts running at line first for main's call
StartWorker(w, role, first, next) ==
    /\ pc' = [pc EXCEPT ![w] = first, !["main"] = next]
    /\ ctx' = [ctx EXCEPT ![w] = role]
    /\ call' = [call EXCEPT ![w] = [NoCall EXCEPT !.id = call["main"].id]]
    /\ task' = [task EXCEPT ![w] = [NoTask EXCEPT !.state = "running"]]

\* line 68: loop.run_in_executor(None, self.get_cpu_temperature)
L68 ==
    /\ pc["main"] = "L68"
    /\ StartWorker("w1", "executor", "L52",
                   IF ctx["main"] = "get_all_metrics_async" THEN "L114" ELSE "await")
    /\ UNCHANGED << now, cache, frame, metrics, cacheHist, ncalls, mainHist >>

\* line 114: loop.run_in_executor(None, psutil.cpu_percent, None)
L114 ==
    /\ pc["main"] = "L114"
    /\ StartWorker("w2", "executor", "cpu_percent", "await")
    /\ UNCHANGED << now, cache, frame, metrics, cacheHist, ncalls, mainHist >>

\* worker w is through: its job gave result, or raised
EndWorker(w, state, result, wrote) ==
    /\ pc' = [pc EXCEPT ![w] = "idle"]
    /\ ctx' = [ctx EXCEPT ![w] = "none"]
    /\ frame' = [frame EXCEPT ![w] = NoFrame]
    /\ call' = [call EXCEPT ![w] = NoCall]
    /\ task' = [task EXCEPT ![w] = [state |-> state, result |-> result,
                                    wrote |-> wrote]]

\* the executor job get_cpu_temperature returned: the future holds its value
ExecutorTemperatureDone ==
    /\ pc["w1"] = "return" /\ ctx["w1"] = "executor"
    /\ EndWorker("w1", "finished", frame["w1"].ret, {})
    /\ UNCHANGED << now, cache, metrics, cacheHist, ncalls, mainHist >>

\* the executor job get_cpu_temperature raised: the future holds the exception
ExecutorTemperatureRaised ==
    /\ pc["w1"] = "raise" /\ ctx["w1"] = "executor"
    /\ EndWorker("w1", "raised", None, {})
    /\ UNCHANGED << now, cache, metrics, cacheHist, ncalls, mainHist >>

\* the executor job psutil.cpu_percent: nothing between psutil and the future
ExecutorCpuPercent ==
    /\ pc["w2"] = "cpu_percent"
    /\ \E o \in PsutilOutcomes :
        /\ obs' = NoteUsage(o)
        /\ IF o.kind = "ok"
           THEN EndWorker("w2", "finished", Some(o.v), {})
           ELSE EndWorker("w2", "raised", None, {})
    /\ UNCHANGED << now, cache, metrics, cacheHist, ncalls, last, log >>

Strategy(op, arg) ==
    \/ op = "get_metrics" /\ arg = << "cpu_temp", "cpu_usage" >>
    \/ op \in {"get_all_metrics_async", "get_all_metrics_threaded"}

\* await (lines 68, 114, 410): the first exception of a job reaches the caller
AwaitRaises ==
    /\ pc["main"] = "await"
    /\ \E w \in Workers : task[w].state = "raised"
    /\ Finish("raised", EmptyDict, Strategy(ctx["main"], << >>))

\* await of a single job (lines 68 and 114-115): its value is returned
AwaitReturns ==
    /\ pc["main"] = "await"
    /\ \E w \in Workers :
        /\ \/ ctx["main"] = "get_cpu_temperature_async" /\ w = "w1"
           \/ ctx["main"] = "get_cpu_usage_async" /\ w = "w2"
        /\ task[w].state = "finished"
        /\ Finish("returned", task[w].result, FALSE)

GatherBySwappedPosition(results) ==
    Put(Put(EmptyDict, "cpu_temp", results[2]), "cpu_usage", results[1])
\* lines 411-415: results[0] goes under 'cpu_temp', results[1] under
\* 'cpu_usage' (gather keeps the order of its arguments; TLA+ counts from 1)
GatherDict(results) ==
    Put(Put(EmptyDict, "cpu_temp", results[1]), "cpu_usage", results[2])

\* lines 410-415: gather has both results; the dict is built from them
L411 ==
    /\ pc["main"] = "await"
    /\ ctx["main"] = "get_all_metrics_async"
    /\ \A w \in Workers : task[w].state = "finished"
    /\ metrics' = GatherDict(<< task["w1"].result, task["w2"].result >>)
    /\ pc' = [pc EXCEPT !["main"] = "L416"]
    /\ UNCHANGED << now, cache, ctx, frame, task, call, cacheHist, ncalls, mainHist >>

\* line 416: return metrics
L416 ==
    /\ pc["main"] = "L416"
    /\ Finish("returned", metrics, TRUE)

-----------------------------------------------------------------------------
(* get_metrics, lines 388-399 *)

CallGetMetrics ==
    \E l \in MetricsLists : Begin("get_metrics", "L393", l, MaxCollects)

\* lines 394-398: where the loop body goes for one metric
GetMetricsBranch(metric) ==
    IF metric = "cpu_temp" THEN "L52"
    ELSE IF metric = "cpu_usage" THEN "L397"
    ELSE "skip"

\* line 393: for metric in metrics_list, and the if/elif of lines 394-396
L393 ==
    /\ pc["main"] = "L393"
    /\ LET f == frame["main"]
       IN  IF f.i > Len(f.list)
           THEN /\ pc' = [pc EXCEPT !["main"] = "L399"]
                /\ frame' = frame
           ELSE IF GetMetricsBranch(f.list[f.i]) = "skip"
           THEN /\ pc' = pc
                /\ frame' = [frame EXCEPT !["main"].i = @ + 1]
           ELSE /\ pc' = [pc EXCEPT !["main"] = GetMetricsBranch(f.list[f.i])]
                /\ frame' = frame
    /\ UNCHANGED << now, cache, ctx, metrics, task, call, cacheHist, ncalls, mainHist >>

\* line 395: metrics['cpu_temp'] = <what get_cpu_temperature returned>
L395 ==
    /\ pc["main"] = "return" /\ ctx["main"] = "get_metrics"
    /\ metrics' = Put(metrics, "cpu_temp", frame["main"].ret)
    /\ frame' = [frame EXCEPT !["main"].i = @ + 1]
    /\ pc' = [pc EXCEPT !["main"] = "L393"]
    /\ UNCHANGED << now, cache, ctx, task, call, cacheHist, ncalls, mainHist >>

\* line 397: metrics['cpu_usage'] = self.get_cpu_usage()
L397 ==
    /\ pc["main"] = "L397"
    /\ \E o \in PsutilOutcomes :
        /\ metrics' = Put(metrics, "cpu_usage", get_cpu_usage(o))
        /\ obs' = NoteUsage(o)
    /\ frame' = [frame EXCEPT !["main"].i = @ + 1]
    /\ pc' = [pc EXCEPT !["main"] = "L393"]
    /\ UNCHANGED << now, cache, ctx, task, call, cacheHist, ncalls, last, log >>

\* line 399: return metrics
L399 ==
    /\ pc["main"] = "L399"
    /\ Finish("returned", metrics, Strategy("get_metrics", frame["main"].list))

\* get_metrics has no handler: what get_cpu_temperature raises leaves it
RaiseGetMetrics ==
    /\ pc["main"] = "raise" /\ ctx["main"] = "get_metrics"
    /\ Finish("raised", EmptyDict, Strategy("get_metrics", frame["main"].list))

-----------------------------------------------------------------------------
(* get_all_metrics, lines 353-384: one try around every read *)

CallGetAllMetrics == Begin("get_all_metrics", "L52", << >>, MaxCollects)

\* line 359: metrics['cpu_temp'] = <what get_cpu_temperature returned>
L359 ==
    /\ pc["main"] = "return" /\ ctx["main"] = "get_all_metrics"
    /\ metrics' = Put(metrics, "cpu_temp", frame["main"].ret)
    /\ pc' = [pc EXCEPT !["main"] = "L360"]
    /\ UNCHANGED << now, cache, ctx, frame, task, call, cacheHist, ncalls, mainHist >>

\* lines 381-382: what get_cpu_temperature raised is caught by the one handler
L381 ==
    /\ pc["main"] = "raise" /\ ctx["main"] = "get_all_metrics"
    /\ pc' = [pc EXCEPT !["main"] = "L384"]
    /\ UNCHANGED << now, cache, ctx, frame, metrics, task, call, cacheHist, ncalls,
                    mainHist >>

\* lines 358 and 381: an exception of any read ends the try block
GetAllMetricsAfter(o, next) == IF o.kind = "Exception" THEN "L384" ELSE next

\* one read of the try block at line at: on a value (or psutil's None) the
\* entry of key k is stored and the block goes on at line next
TryRead(at, k, outcomes, next) ==
    /\ pc["main"] = at
    /\ \E o \in outcomes :
        /\ metrics' = IF o.kind = "Exception" THEN metrics
                      ELSE Put(metrics, k, IF o.kind = "ok" THEN Some(o.v) ELSE None)
        /\ obs' = IF k = "cpu_usage" THEN NoteUsage(o) ELSE NoteOther(k, o)
        /\ pc' = [pc EXCEPT !["main"] = GetAllMetricsAfter(o, next)]
    /\ UNCHANGED << now, cache, ctx, frame, task, call, cacheHist, ncalls, last, log >>

\* line 360: metrics['cpu_usage'] = psutil.cpu_percent(interval=None)
L360 == TryRead("L360", "cpu_usage", PsutilOutcomes, "L361")

\* lines 361-362: metrics['cpu_freq'] = cpu_freq.current if cpu_freq else None
L361 == TryRead("L361", "cpu_freq", FreqOutcomes, "L364")

\* lines 364-370: metrics['memory'] from psutil.virtual_memory()
L364 == TryRead("L364", "memory", PsutilOutcomes, "L372")

\* lines 372-378: metrics['disk'] from psutil.disk_usage('/')
L372 == TryRead("L372", "disk", PsutilOutcomes, "L384")

\* line 384: return metrics
L384 ==
    /\ pc["main"] = "L384"
    /\ Finish("returned", metrics, FALSE)

-----------------------------------------------------------------------------
(* get_all_metrics_threaded, lines 418-441 *)

CallGetAllMetricsThreaded ==
    Begin("get_all_metrics_threaded", "L437", << >>, MaxCollects)

\* lines 436-437: for thread in threads: thread.start()
L437 ==
    /\ pc["main"] = "L437"
    /\ IF frame["main"].i = 1
       THEN /\ StartWorker("w1", "collect_cpu_temp", "L52", "L437")
            /\ frame' = [frame EXCEPT !["main"].i = 2]
       ELSE /\ StartWorker("w2", "collect_cpu_usage", "L428", "L439")
            /\ frame' = [frame EXCEPT !["main"].i = 1]
    /\ UNCHANGED << now, cache, metrics, cacheHist, ncalls, mainHist >>

\* line 425: metrics['cpu_temp'] = <what get_cpu_temperature returned>
L425 ==
    /\ pc["w1"] = "return" /\ ctx["w1"] = "collect_cpu_temp"
    /\ metrics' = Put(metrics, "cpu_temp", frame["w1"].ret)
    /\ EndWorker("w1", "finished", None, {"cpu_temp"})
    /\ UNCHANGED << now, cache, cacheHist, ncalls, mainHist >>

\* collect_cpu_temp has no handler: what get_cpu_temperature raised ends the
\* thread (threading prints the traceback) before line 425 stores anything
ThreadDies ==
    /\ pc["w1"] = "raise" /\ ctx["w1"] = "collect_cpu_temp"
    /\ EndWorker("w1", "died", None, {})
    /\ UNCHANGED << now, cache, metrics, cacheHist, ncalls, mainHist >>

\* line 428: metrics['cpu_usage'] = self.get_cpu_usage()
L428 ==
    /\ pc["w2"] = "L428"
    /\ \E o \in PsutilOutcomes :
        /\ metrics' = Put(metrics, "cpu_usage", get_cpu_usage(o))
        /\ obs' = NoteUsage(o)
    /\ EndWorker("w2", "finished", None, {"cpu_usage"})
    /\ UNCHANGED << now, cache, cacheHist, ncalls, last, log >>

\* thread.join() returns once the thread has ended
Joined(w) == Idle(w) /\ task[w].state \in {"finished", "died"}

\* lines 438-439: for thread in threads: thread.join()
L439 ==
    /\ pc["main"] = "L439"
    /\ IF frame["main"].i = 1
       THEN /\ Joined("w1")
            /\ frame' = [frame EXCEPT !["main"].i = 2]
            /\ pc' = pc
       ELSE /\ Joined("w2")
            /\ frame' = [frame EXCEPT !["main"].i = 1]
            /\ pc' = [pc EXCEPT !["main"] = "L441"]
    /\ UNCHANGED << now, cache, ctx, metrics, task, call, cacheHist, ncalls, mainHist >>

\* line 441: return metrics
L441 ==
    /\ pc["main"] = "L441"
    /\ Finish("returned", metrics, TRUE)

-----------------------------------------------------------------------------
(* get_gpu_temperature, lines 70-89 *)

\* What subprocess.check_output(["vcgencmd", "measure_temp"]).decode() can
\* give, character by character: the usual line, a line without '=', a line
\* whose number is not one, an empty number, a line without the quote.
MeasureTempOutputs ==
    { << "t", "=", "4", "7", "'", "C", "\n" >>,
      << "4", "7", "\n" >>,
      << "t", "=", "x", "'", "C", "\n" >>,
      << "t", "=", "'", "C", "\n" >>,
      << "t", "=", "5", "2", "\n" >> }

\* What line 83 can do: give the output, fail to find the command, or find
\* that it exited with a non-zero status.
CommandOutcomes ==
    {[kind |-> "ok", out |-> o] : o \in MeasureTempOutputs}
        \cup {[kind |-> "FileNotFoundError", out |-> << >>],
              [kind |-> "CalledProcessError", out |-> << >>]}

Digits == [c \in {"0", "1", "2", "3", "4", "5", "6", "7", "8", "9"} |->
            CASE c = "0" -> 0 [] c = "1" -> 1 [] c = "2" -> 2 [] c = "3" -> 3
              [] c = "4" -> 4 [] c = "5" -> 5 [] c = "6" -> 6 [] c = "7" -> 7
              [] c = "8" -> 8 [] c = "9" -> 9]

\* str.strip(), line 84: the trailing newline goes
Strip(str) ==
    IF Len(str) > 0 /\ str[Len(str)] = "\n" THEN SubSeq(str, 1, Len(str) - 1) ELSE str

\* the positions of character c in str
Positions(str, c) == {i \in 1 .. Len(str) : str[i] = c}

Min(S) == CHOOSE x \in S : \A y \in S : x <= y

\* str.split(c)[0]: what precedes the first c, all of str when it holds none
SplitFirst(str, c) ==
    IF Positions(str, c) = {} THEN str
    ELSE SubSeq(str, 1, Min(Positions(str, c)) - 1)

\* str.split(c)[1]: what lies between the first c and the next one (with
\* HasSecondPart(str, c): without a c in str the index 1 is out of range)
HasSecondPart(str, c) == Positions(str, c) # {}

SplitSecond(str, c) ==
    LET rest == SubSeq(str, Min(Positions(str, c)) + 1, Len(str))
    IN  SplitFirst(rest, c)

\* float(str) accepts str
IsNumber(str) == Len(str) > 0 /\ \A i \in 1 .. Len(str) : str[i] \in DOMAIN Digits

RECURSIVE ToNumber(_)
ToNumber(str) ==
    IF Len(str) = 0 THEN 0
    ELSE 10 * ToNumber(SubSeq(str, 1, Len(str) - 1)) + Digits[str[Len(str)]]

\* lines 84-85: output.strip().split('=')[1].split("'")[0], then float()
ParseMeasureTemp(output) ==
    IF ~HasSecondPart(Strip(output), "=") THEN [kind |-> "IndexError", v |-> 0]
    ELSE LET temp_str == SplitFirst(SplitSecond(Strip(output), "="), "'")
         IN  IF IsNumber(temp_str) THEN [kind |-> "ok", v |-> ToNumber(temp_str)]
             ELSE [kind |-> "ValueError", v |-> 0]

\* every exception the two tiers can meet
GpuFailureKinds ==
    {"FileNotFoundError", "ValueError", "OSError", "CalledProcessError", "IndexError"}

CaughtAt87Narrow == CaughtAt61
\* except Exception, line 87
CaughtAt87 == GpuFailureKinds

CallGetGpuTemperature == Begin("get_gpu_temperature", "L76", << >>, MaxCalls)

\* line 76: if os.path.exists(temp_path)
L76 ==
    /\ pc["main"] = "L76"
    /\ \E exists \in BOOLEAN :
        /\ pc' = [pc EXCEPT !["main"] = IF exists THEN "L77" ELSE "L83"]
        /\ obs' = [exists |-> exists, invoked |-> FALSE, gpu |-> NoOutcome] @@ obs
    /\ UNCHANGED << now, cache, ctx, frame, metrics, task, call, cacheHist, ncalls,
                    last, log >>

\* the outcome o of a tier: its value goes to temp_c and the return of that
\* tier (line ret), its exception to the handler of line 87
GpuTier(o, ret) ==
    /\ frame' = [frame EXCEPT !["main"].temp_c = IF o.kind = "ok" THEN o.v ELSE @]
    /\ pc' = [pc EXCEPT !["main"] = IF o.kind = "ok" THEN ret ELSE "L87"]

\* lines 77-79: open the file, read its first line, parse it
L77 ==
    /\ pc["main"] = "L77"
    /\ \E o \in ReadOutcomes :
        LET r == [o EXCEPT !.v = IF o.kind = "ok" THEN ToCelsius(o.v) ELSE 0]
        IN  /\ GpuTier(r, "L80")
            /\ obs' = [obs EXCEPT !.gpu = r]
    /\ UNCHANGED << now, cache, ctx, metrics, task, call, cacheHist, ncalls, last, log >>

\* lines 83-85: run vcgencmd measure_temp and parse what it printed
L83 ==
    /\ pc["main"] = "L83"
    /\ \E o \in CommandOutcomes :
        LET r == IF o.kind = "ok" THEN ParseMeasureTemp(o.out)
                 ELSE [kind |-> o.kind, v |-> 0]
        IN  /\ GpuTier(r, "L86")
            /\ obs' = [obs EXCEPT !.gpu = r, !.invoked = TRUE]
    /\ UNCHANGED << now, cache, ctx, metrics, task, call, cacheHist, ncalls, last, log >>

\* the end of a get_gpu_temperature call: its record
GpuFinish(status, result) ==
    /\ last' = [exists |-> obs.exists, invoked |-> obs.invoked, gpu |-> obs.gpu]
                    @@ Record(status, result)
    /\ log' = log
    /\ pc' = [pc EXCEPT !["main"] = "idle"]
    /\ ctx' = [ctx EXCEPT !["main"] = "none"]
    /\ frame' = [frame EXCEPT !["main"] = NoFrame]
    /\ call' = [call EXCEPT !["main"] = NoCall]
    /\ obs' = NoObs
    /\ UNCHANGED << now, cache, cacheHist, ncalls, metrics, task >>

\* lines 80 and 86: return temp_c
L80 ==
    /\ pc["main"] \in {"L80", "L86"}
    /\ GpuFinish("returned", Some(frame["main"].temp_c))

\* lines 87-89: a caught exception is logged and None returned; any other
\* leaves get_gpu_temperature
L87 ==
    /\ pc["main"] = "L87"
    /\ IF obs.gpu.kind \in CaughtAt87
       THEN GpuFinish("returned", None)
       ELSE GpuFinish("raised", None)

-----------------------------------------------------------------------------
(* Specifications *)

\* Threads r1 and r2 read the cached temperature concurrently.
Next ==
    \E r \in Readers :
        \/ ReaderCallGet(r)
        \/ ReaderCallProperty(r)
        \/ CacheStep(r)
        \/ ReaderLeaves(r)

Spec == Init /\ [][Next]_vars

\* main alone: a sequential history of cached reads.
NextSeq ==
    \/ CallGetCpuTemperature
    \/ CallCpuTemperatureProperty
    \/ CacheStep("main")
    \/ ReturnTemperature
    \/ RaiseTemperature

SpecSeq == Init /\ [][NextSeq]_vars

\* main calls the getters and the collectors one after another; a collector's
\* workers w1 and w2 run concurrently with main and with each other.
NextAgg ==
    \/ CallGetCpuTemperature
    \/ CallCpuTemperatureProperty
    \/ \E t \in {"main"} \cup Workers : CacheStep(t)
    \/ ReturnTemperature
    \/ RaiseTemperature
    \/ CallGetCpuUsage \/ L103
    \/ CallGetLoadAverage \/ L276
    \/ CallGetCpuTemperatureAsync \/ CallGetCpuUsageAsync \/ CallGetAllMetricsAsync
    \/ L68 \/ L114
    \/ ExecutorTemperatureDone \/ ExecutorTemperatureRaised \/ ExecutorCpuPercent
    \/ AwaitRaises \/ AwaitReturns \/ L411 \/ L416
    \/ CallGetMetrics \/ L393 \/ L395 \/ L397 \/ L399 \/ RaiseGetMetrics
    \/ CallGetAllMetrics \/ L359 \/ L381 \/ L360 \/ L361 \/ L364 \/ L372 \/ L384
    \/ CallGetAllMetricsThreaded \/ L437 \/ L425 \/ ThreadDies \/ L428 \/ L439 \/ L441

SpecAgg == Init /\ [][NextAgg]_vars

\* main alone calls the sensors that read files and run commands:
\* the cached CPU temperature and the GPU temperature.
NextSensors ==
    \/ NextSeq
    \/ CallGetGpuTemperature \/ L76 \/ L77 \/ L83 \/ L80 \/ L87

SpecSensors == Init /\ [][NextSensors]_vars

\* main calls the coroutines one after another and awaits each; the executor
\* threads w1 and w2 run their jobs concurrently.
NextAsync ==
    \/ CallGetCpuTemperatureAsync \/ CallGetCpuUsageAsync \/ CallGetAllMetricsAsync
    \/ L68 \/ L114
    \/ L52("w1") \/ L53("w1") \/ L56("w1") \/ L59("w1") \/ L60("w1") \/ L63("w1")
    \/ L64("w1")
    \/ ExecutorTemperatureDone \/ ExecutorTemperatureRaised \/ ExecutorCpuPercent
    \/ AwaitRaises \/ AwaitReturns \/ L411 \/ L416

SpecAsync == Init /\ [][NextAsync]_vars

-----------------------------------------------------------------------------
(* Properties of the cached temperature *)

\* thread t holds the value its cached read is about to hand back
AtReturn(t) ==
    \/ pc[t] = "return" /\ ctx[t] = "get_cpu_temperature"
    \/ pc[t] = "done" /\ ctx[t] = "cpu_temperature"

\* The time of a call is the first clock sample it takes.
Entry(t) ==
    IF ctx[t] = "cpu_temperature" THEN frame[t].prop_time ELSE frame[t].current_time

Pairs == {p \in (1 .. Len(log)) \X (1 .. Len(log)) : p[1] < p[2]}

WithinTtl(p) == log[p[2]].clock - log[p[1]].clock <= _cpu_temp_ttl

\* C3 as claimed: once a call has read the source at time t, whether the read
\* gave a value or failed, every later call at t' with t' - t <= ttl returns
\* what that call returned and does not read the source again.
C3_AnyReadIsCached ==
    \A p \in Pairs :
        ( /\ log[p[1]].temp.kind # "none"
          /\ log[p[1]].status = "returned"
          /\ WithinTtl(p) )
        => /\ log[p[2]].status = "returned"
           /\ log[p[2]].result = log[p[1]].result
           /\ log[p[2]].temp.kind = "none"

\* C3 as amended: a call at time t that stores the timestamp (a
\* get_cpu_temperature call whose read gave a value, or a read of the
\* cpu_temperature property that found the cache stale, also when its source
\* read failed with a missing file or an unparsable line) is repeated by every
\* later call at t' with t' - t <= ttl: same value, no source read.  A failed
\* read by get_cpu_temperature itself stores no timestamp: the next call reads
\* the source again.
C3_StampedReadIsCached ==
    /\ \A p \in Pairs :
        (log[p[1]].stamped /\ WithinTtl(p))
        => /\ log[p[2]].status = "returned"
           /\ log[p[2]].result = log[p[1]].result
           /\ log[p[2]].temp.kind = "none"
    /\ \A i \in 1 .. Len(log) - 1 :
        ( /\ log[i].op = "get_cpu_temperature"
          /\ log[i].temp.kind \in CaughtAt61 )
        => log[i + 1].temp.kind # "none"

\* C3 witness: a property read whose source read failed is answered from the
\* cache exactly a TTL later, after a failed get_cpu_temperature was retried.
C3_Witness ==
    /\ Len(log) = 3
    /\ log[1].op = "get_cpu_temperature" /\ log[1].temp.kind \in CaughtAt61
    /\ log[2].op = "cpu_temperature" /\ log[2].temp.kind \in CaughtAt61
    /\ log[2].stamped
    /\ log[3].clock - log[2].clock = _cpu_temp_ttl
    /\ log[3].temp.kind = "none" /\ log[3].result = None

\* C4 as claimed: a value a cached read hands back at time now comes from a source
\* read made no earlier than now - ttl, whatever the interleaving.
C4_NeverOlderThanTtl ==
    \A t \in Threads :
        (AtReturn(t) /\ frame[t].ret # None)
        => readTime[call[t].retBy] >= Entry(t) - _cpu_temp_ttl

\* C5 as claimed: a call that finds the timestamp fresh hands back the value of
\* the very refresh that stored that timestamp.
C5_PairNeverTorn ==
    \A t \in Threads :
        (AtReturn(t) /\ call[t].hit) => call[t].retBy = call[t].obsBy

-----------------------------------------------------------------------------
(* Properties of the collectors and of the sensor getters, stated on the   *)
(* record of the call main completed last and on the history of strategy   *)
(* calls.                                                                  *)

\* the ids of a metrics_list
Requested(l) == {l[i] : i \in 1 .. Len(l)}

AllMetricsKeys == {"cpu_temp", "cpu_usage", "cpu_freq", "memory", "disk"}

\* C1 as claimed: whichever reads fail, the snapshot get_all_metrics returns
\* holds an entry for each of cpu_temp, cpu_usage, cpu_freq, memory and disk.
C1_FailureIsolated ==
    last.op = "get_all_metrics"
    => /\ last.status = "returned"
       /\ AllMetricsKeys \subseteq DOMAIN last.result

StrategyOps == {"get_metrics", "get_all_metrics_async", "get_all_metrics_threaded"}

\* two calls met the same sensor: where both read it, it answered the same
SameSensor(x, y) == x.kind = "none" \/ y.kind = "none" \/ x = y

\* C2 as claimed: two strategy calls (get_metrics(['cpu_temp','cpu_usage']),
\* get_all_metrics_async, get_all_metrics_threaded) that start from the same
\* cache state, at the same clock and meet the same sensor outcomes both
\* return, return the same snapshot and leave the cache in the same state.
C2_StrategiesEquivalent ==
    \A p \in Pairs :
        LET a == log[p[1]]
            b == log[p[2]]
        IN  ( /\ a.op \in StrategyOps /\ b.op \in StrategyOps
              /\ a.startTemp = b.startTemp /\ a.startTs = b.startTs
              /\ a.clock = b.clock
              /\ SameSensor(a.temp, b.temp) /\ SameSensor(a.usage, b.usage) )
            => /\ a.status = "returned" /\ b.status = "returned"
               /\ a.result = b.result
               /\ a.endTemp = b.endTemp /\ a.endTs = b.endTs

SensorOps == {"get_cpu_temperature", "get_cpu_usage", "get_load_average",
              "get_cpu_temperature_async", "get_cpu_usage_async"}

\* C6 as claimed: a sensor entry point, synchronous or asynchronous, whose
\* source fails returns None; no exception of the read reaches the caller.
C6_SensorReadsAreTotal ==
    (last.op \in SensorOps /\ last.failed # {})
    => /\ last.status = "returned"
       /\ last.result = None

\* C7 as claimed: for a metrics_list of known metrics, the key set of the
\* snapshot get_metrics returns is exactly the set of requested ids.
C7_OneEntryPerRequestedId ==
    (last.op = "get_metrics" /\ Requested(last.arg) \subseteq KnownMetrics)
    => /\ last.status = "returned"
       /\ DOMAIN last.result = Requested(last.arg)

\* C8 as claimed: a get_metrics call whose metrics_list holds an id that is
\* not a known metric ends in an error instead of returning a snapshot.
C8_UnknownIdFailsFast ==
    (last.op = "get_metrics" /\ ~(Requested(last.arg) \subseteq KnownMetrics))
    => last.status = "raised"

CollectAllOps == {"get_all_metrics", "get_all_metrics_async",
                  "get_all_metrics_threaded"}

\* C9 as claimed: when no sensor fails, each collect-all operation returns a
\* snapshot whose key set is the set of all metrics the monitor has a getter
\* for (so the three return the same key set).
C9_CollectAllCoversRegistry ==
    (last.op \in CollectAllOps /\ last.failed = {})
    => /\ last.status = "returned"
       /\ DOMAIN last.result = KnownMetrics

\* C10 as claimed: once get_all_metrics_threaded has returned, both threads
\* have ended, each has written the entry of its own key and no other, the
\* snapshot holds cpu_temp and cpu_usage, and it is what was returned.
C10_JoinBarrier ==
    last.op = "get_all_metrics_threaded"
    => /\ last.running = {}
       /\ \A w \in Workers : Idle(w)
       /\ task["w1"].wrote = {"cpu_temp"}
       /\ task["w2"].wrote = {"cpu_usage"}
       /\ {"cpu_temp", "cpu_usage"} \subseteq DOMAIN last.result
       /\ metrics = last.result

-----------------------------------------------------------------------------
(* Properties of get_gpu_temperature *)

\* C11: get_gpu_temperature runs the external command exactly when the file
\* path does not exist, and never raises: whenever a tier fails (file
\* vanished, unreadable or non-numeric; command missing, non-zero exit or
\* unparsable output) it returns None, and otherwise the value of that tier.
C11_TwoTierFallback ==
    last.op = "get_gpu_temperature"
    => /\ last.status = "returned"
       /\ last.invoked <=> ~last.exists
       /\ last.gpu.kind # "ok" => last.result = None
       /\ last.gpu.kind = "ok" => last.result = Some(last.gpu.v)

\* C11 witness: the path exists and its line is not a number: None is
\* returned and the command was not run.
C11_Witness ==
    /\ last.op = "get_gpu_temperature"
    /\ last.exists /\ ~last.invoked
    /\ last.gpu.kind = "ValueError"
    /\ last.status = "returned" /\ last.result = None

-----------------------------------------------------------------------------
(* Properties of get_all_metrics_async *)

\* C12: get_all_metrics_async builds its dict only once both executor jobs
\* are through, so no job runs while the dict is being built; whichever job
\* finished first, the dict holds what get_cpu_temperature returned under
\* cpu_temp and what psutil.cpu_percent returned under cpu_usage, and that
\* dict is what the call returns.
C12_CooperativeJoin ==
    /\ (ctx["main"] = "get_all_metrics_async" /\ metrics # EmptyDict)
       => /\ \A w \in Workers : Idle(w) /\ task[w].state = "finished"
          /\ DOMAIN metrics = {"cpu_temp", "cpu_usage"}
          /\ metrics["cpu_temp"] = task["w1"].result
          /\ metrics["cpu_temp"] = _cpu_temperature
          /\ obs.usage.kind = "ok"
          /\ metrics["cpu_usage"] = Some(obs.usage.v)
    /\ (last.op = "get_all_metrics_async" /\ last.status = "returned")
       => /\ last.running = {}
          /\ last.result = metrics
          /\ last.result["cpu_temp"] = last.endTemp
          /\ last.result["cpu_usage"] = Some(last.usage.v)

\* C12 witness: the call has returned a temperature read from the file and
\* a usage, each under its key.
C12_Witness ==
    /\ last.op = "get_all_metrics_async" /\ last.status = "returned"
    /\ last.temp.kind = "ok"
    /\ last.result["cpu_temp"] = Some(ToCelsius(last.temp.v))
    /\ last.result["cpu_usage"] = Some(last.usage.v)

-----------------------------------------------------------------------------
(* Properties of the timestamp *)

\* C13 as claimed: no step of a cpu_temperature read or of a
\* get_cpu_temperature call, in any sequence or interleaving of them, makes
\* _cpu_temp_timestamp smaller than it was.
C13_TimestampNeverMovesBack ==
    [][_cpu_temp_timestamp' >= _cpu_temp_timestamp]_vars

====
